---- MODULE Spec2Model ----
(***************************************************************************)
(* PersistentMap (src/src/compiler/persistent-map.h): a persistent map     *)
(* built on a hash tree whose nodes (FocusedTree) each carry one focused   *)
(* path.  The zone is modelled as two growing sequences, one of            *)
(* FocusedTree nodes and one of ZoneMap collision buckets; a pointer is    *)
(* an index into the sequence and 0 is nullptr.                            *)
(*                                                                         *)
(* TLC integers are 32-bit signed, so an unsigned 32-bit number is carried *)
(* as the pair <<high 16 bits, low 16 bits>>.                              *)
(***************************************************************************)
EXTENDS Integers, Sequences, FiniteSets, TLC

VARIABLES trees, zmaps, maps

vars == <<trees, zmaps, maps>>

\* ---------------------------------------------------------------- bounds
\* Greatest number of FocusedTree nodes the zone may hold.
MaxNodes == 3

\* ------------------------------------------------------ program constants
kHashBits == 32
kLeft == 0
kRight == 1

nullptr == 0
\* An array slot or iterator field that was never written.
Uninit == -1

\* The handle variables of the modelled client.
Handles == {"a", "b"}
Keys == {1, 2, 3, 4}
Values == {0, 1, 2}
\* Default values a map may be constructed with.
DefValues == {0, 1}

\* 2^n for the bit positions of one 16-bit half.
Pow2 == [n \in 0..15 |-> 2 ^ n]

\* Hasher()(key): the size_t hash of a key, as <<high half, low half>>.
\* Keys 1 and 2 collide, key 3 differs from them in the last bit only,
\* key 4 differs from all of them in the first bit.
Hasher(key) ==
  CASE key = 1 -> <<32768, 1>>
    [] key = 2 -> <<32768, 1>>
    [] key = 3 -> <<32768, 0>>
    [] key = 4 -> <<16384, 0>>
    [] OTHER   -> <<key % 65536, key % 65536>>

\* HashValue(size_t hash): bits_(hash), a std::bitset<kHashBits>, which keeps
\* the low kHashBits bits of the hash in one machine word.
HashValue(hash) == <<hash[1] % 65536, hash[2] % 65536>>

\* std::bitset::operator[](i): bit i of the word, 0 the least significant.
BitsetTest(h, i) ==
  IF i < 16 THEN (h[2] \div Pow2[i]) % 2 ELSE (h[1] \div Pow2[i - 16]) % 2

\* HashValue::operator[](pos): bits_[kHashBits - pos - 1] ? kRight : kLeft.
HashBit(h, pos) == IF BitsetTest(h, kHashBits - pos - 1) = 1 THEN kRight ELSE kLeft

\* (h1 ^ h2)[pos]: the bit of the exclusive or at position pos.
HashXorBit(h1, h2, pos) == (HashBit(h1, pos) + HashBit(h2, pos)) % 2

\* The number whose binary digits are the bits from..from+n-1 of the bitset.
RECURSIVE BitsValue(_, _, _)
BitsValue(h, from, n) ==
  IF n = 0 THEN 0 ELSE BitsetTest(h, from) + 2 * BitsValue(h, from + 1, n - 1)

\* bits_.to_ulong(): the sum of the weights of the set bits, as
\* <<high half, low half>>.
ToULong(h) == <<BitsValue(h, 16, 16), BitsValue(h, 0, 16)>>

\* A faulty variant of operator<: the two words are compared as signed 32-bit
\* numbers, a word with its top bit set counting as negative.
HashLess_Signed(h1, h2) ==
  LET x == ToULong(h1)
      y == ToULong(h2)
      sx == IF x[1] >= 32768 THEN x[1] - 65536 ELSE x[1]
      sy == IF y[1] >= 32768 THEN y[1] - 65536 ELSE y[1]
  IN  sx < sy \/ (sx = sy /\ x[2] < y[2])

\* HashValue::operator<: bits_.to_ulong() < other.bits_.to_ulong().
HashLess(h1, h2) ==
  LET x == ToULong(h1)
      y == ToULong(h2)
  IN  x[1] < y[1] \/ (x[1] = y[1] /\ x[2] < y[2])

\* The word whose bits from..from+n-1 are those of bits_ ^ other.bits_.
RECURSIVE XorBitsValue(_, _, _, _)
XorBitsValue(h1, h2, from, n) ==
  IF n = 0 THEN 0
  ELSE ((BitsetTest(h1, from) + BitsetTest(h2, from)) % 2)
         + 2 * XorBitsValue(h1, h2, from + 1, n - 1)

\* HashValue::operator^: HashValue(bits_ ^ other.bits_).
HashXor(h1, h2) ==
  <<XorBitsValue(h1, h2, 16, 16), XorBitsValue(h1, h2, 0, 16)>>

\* ------------------------------------------------- ZoneMap<Key, Value>
\* A std::map: a sequence of <<key, value>> pairs in strictly increasing
\* key order.  An iterator into it is a position 1..Len+1, Len+1 is end().
ZMapEnd(m) == Len(m) + 1

\* ZoneMap::find(key).
ZMapFind(m, key) ==
  IF \E i \in 1..Len(m) : m[i][1] = key
  THEN CHOOSE i \in 1..Len(m) : m[i][1] = key
  ELSE ZMapEnd(m)

\* A faulty variant of ZMapAssign: an unordered bucket, a new key goes to the back.
ZMapAssign_Unordered(m, key, value) ==
  IF \E i \in 1..Len(m) : m[i][1] = key
  THEN [i \in 1..Len(m) |-> IF m[i][1] = key THEN <<key, value>> ELSE m[i]]
  ELSE Append(m, <<key, value>>)

\* A faulty variant of ZMapAssign: an entry that exists is left as it is (the
\* behaviour of insert).
ZMapAssign_NoOverwrite(m, key, value) ==
  IF \E i \in 1..Len(m) : m[i][1] = key
  THEN m
  ELSE LET n == Cardinality({i \in 1..Len(m) : m[i][1] < key})
       IN  [i \in 1..(Len(m) + 1) |->
              IF i <= n THEN m[i]
              ELSE IF i = n + 1 THEN <<key, value>>
              ELSE m[i - 1]]

\* (*more)[key] = value: overwrite the entry or insert it in key order.
ZMapAssign(m, key, value) ==
  IF \E i \in 1..Len(m) : m[i][1] = key
  THEN [i \in 1..Len(m) |-> IF m[i][1] = key THEN <<key, value>> ELSE m[i]]
  ELSE LET n == Cardinality({i \in 1..Len(m) : m[i][1] < key})
       IN  [i \in 1..(Len(m) + 1) |->
              IF i <= n THEN m[i]
              ELSE IF i = n + 1 THEN <<key, value>>
              ELSE m[i - 1]]

\* ------------------------------------------------------- FocusedTree
\* FocusedTree::path(i): the i-th side pointer (0-based) of node t.
TreePath(T, t, i) == T[t].path_array[i + 1]

\* static_cast<int8_t>(length).
Int8(x) == ((x + 128) % 256) - 128

EmptyPath == [i \in 0..(kHashBits - 1) |-> Uninit]

\* ------------------------------------------------------- FindHash(hash)
\* A faulty variant of SkipEqualBits: the levels on which the hashes agree are not
\* skipped.
SkipEqualBits_NoSkip(h1, h2, level) == level

\* The inner loop of both FindHash overloads,
\*   while ((hash ^ tree->key_hash)[level] == 0) ++level;
\* the first level at or after `level` on which the two hashes differ.
\* Reading a bit at a level >= kHashBits is out of range; the loop is cut
\* there and yields kHashBits.
RECURSIVE SkipEqualBits(_, _, _)
SkipEqualBits(h1, h2, level) ==
  IF level >= kHashBits THEN level
  ELSE IF HashXorBit(h1, h2, level) = 0 THEN SkipEqualBits(h1, h2, level + 1)
  ELSE level

\* A faulty variant of FindHashLoop: the test before path(level) is off by one, the
\* last side pointer of a node is never followed.
RECURSIVE FindHashLoop_LastSideMissed(_, _, _, _)
FindHashLoop_LastSideMissed(T, hash, tree, level) ==
  IF tree # nullptr /\ hash # T[tree].key_hash
  THEN LET lv == SkipEqualBits(hash, T[tree].key_hash, level)
           next == IF lv + 1 < T[tree].length THEN TreePath(T, tree, lv) ELSE nullptr
       IN  FindHashLoop_LastSideMissed(T, hash, next, lv + 1)
  ELSE tree

RECURSIVE FindHashLoop(_, _, _, _)
FindHashLoop(T, hash, tree, level) ==
  IF tree # nullptr /\ hash # T[tree].key_hash
  THEN LET lv == SkipEqualBits(hash, T[tree].key_hash, level)
           next == IF lv < T[tree].length THEN TreePath(T, tree, lv) ELSE nullptr
       IN  FindHashLoop(T, hash, next, lv + 1)
  ELSE tree

\* FindHash(HashValue hash) const, on the map m.
FindHash(T, m, hash) == FindHashLoop(T, hash, m.tree_, 0)

\* GetFocusedValue(tree, key) const, on the map m.
GetFocusedValue(T, Z, m, tree, key) ==
  IF tree = nullptr THEN m.def_value_
  ELSE IF T[tree].more # nullptr
  THEN LET b == Z[T[tree].more]
           pos == ZMapFind(b, key)
       IN  IF pos = ZMapEnd(b) THEN m.def_value_ ELSE b[pos][2]
  ELSE IF key = T[tree].key_value[1] THEN T[tree].key_value[2]
  ELSE m.def_value_

\* Get(key) const.
Get(T, Z, m, key) ==
  LET key_hash == HashValue(Hasher(key))
      tree == FindHash(T, m, key_hash)
  IN  GetFocusedValue(T, Z, m, tree, key)

\* ----------------------------------------- FindHash(hash, path, length)
\* A faulty variant of RecordSides: the side pointers of the levels passed are dropped.
RecordSides_Dropped(T, tree, path, from, to) ==
  [i \in 0..(kHashBits - 1) |->
     IF from <= i /\ i < to THEN nullptr ELSE path[i]]

\* The writes of the inner loop of the path-recording FindHash on the levels
\* from..to-1:  (*path)[level] = level < map_length ? tree->path(level) : nullptr.
RecordSides(T, tree, path, from, to) ==
  [i \in 0..(kHashBits - 1) |->
     IF from <= i /\ i < to
     THEN (IF i < T[tree].length THEN TreePath(T, tree, i) ELSE nullptr)
     ELSE path[i]]

\* A faulty variant of FindHashPathLoop: when the node is found, its length is
\* reported but its remaining side pointers are not copied to the path.
RECURSIVE FindHashPathLoop_TailNotCopied(_, _, _, _, _)
FindHashPathLoop_TailNotCopied(T, hash, tree, path, level) ==
  IF tree # nullptr /\ hash # T[tree].key_hash
  THEN LET lv == SkipEqualBits(hash, T[tree].key_hash, level)
           r == RecordSides(T, tree, path, level, lv)
           p == IF lv < kHashBits THEN [r EXCEPT ![lv] = tree] ELSE r
           next == IF lv < T[tree].length THEN TreePath(T, tree, lv) ELSE nullptr
       IN  FindHashPathLoop_TailNotCopied(T, hash, next, p, lv + 1)
  ELSE IF tree # nullptr
  THEN LET last == IF level < T[tree].length THEN T[tree].length ELSE level
       IN  [tree |-> tree, path |-> path, length |-> last]
  ELSE [tree |-> tree, path |-> path, length |-> level]

RECURSIVE FindHashPathLoop(_, _, _, _, _)
FindHashPathLoop(T, hash, tree, path, level) ==
  IF tree # nullptr /\ hash # T[tree].key_hash
  THEN LET lv == SkipEqualBits(hash, T[tree].key_hash, level)
           r == RecordSides(T, tree, path, level, lv)
           p == IF lv < kHashBits THEN [r EXCEPT ![lv] = tree] ELSE r
           next == IF lv < T[tree].length THEN TreePath(T, tree, lv) ELSE nullptr
       IN  FindHashPathLoop(T, hash, next, p, lv + 1)
  ELSE IF tree # nullptr
  THEN \* while (level < tree->length) { (*path)[level] = tree->path(level); ++level; }
       LET last == IF level < T[tree].length THEN T[tree].length ELSE level
       IN  [tree |-> tree, path |-> RecordSides(T, tree, path, level, last),
            length |-> last]
  ELSE [tree |-> tree, path |-> path, length |-> level]

\* FindHash(HashValue hash, std::array<...>* path, int* length) const.
FindHashPath(T, m, hash) == FindHashPathLoop(T, hash, m.tree_, EmptyPath, 0)

\* ------------------------------------------------------------------ Add
\* A faulty variant of AddBucket: the new bucket is copied but the key is not bound in it.
AddBucket_KeyNotBound(T, Z, old, key, value) ==
  IF T[old].more # nullptr
  THEN Z[T[old].more]
  ELSE <<T[old].key_value>>

\* A faulty variant of AddBucket: the bucket of the old node is not copied, the new
\* bucket starts from the old node's own pair.
AddBucket_OldBucketDropped(T, Z, old, key, value) ==
  ZMapAssign(<<T[old].key_value>>, key, value)

\* The bucket Add builds for the new node:  *more = *old->more  or
\* (*more)[old key] = old value,  then  (*more)[key] = value.
AddBucket(T, Z, old, key, value) ==
  IF T[old].more # nullptr
  THEN ZMapAssign(Z[T[old].more], key, value)
  ELSE ZMapAssign(<<T[old].key_value>>, key, value)

\* The zone and the map Add returns when it allocates: the bucket, if one is
\* needed, and the new FocusedTree with the recorded path.
AddNode(T, Z, m, key, value, key_hash, f) ==
  LET old == f.tree
      needMore == old # nullptr
                  /\ ~(T[old].more = nullptr /\ T[old].key_value[1] = key)
      Z2 == IF needMore THEN Append(Z, AddBucket(T, Z, old, key, value)) ELSE Z
      tree == [key_value |-> <<key, value>>,
               length |-> Int8(f.length),
               key_hash |-> key_hash,
               more |-> IF needMore THEN Len(Z2) ELSE nullptr,
               path_array |-> [i \in 1..f.length |-> f.path[i - 1]]]
  IN  [trees |-> Append(T, tree), zmaps |-> Z2,
       map |-> [tree_ |-> Len(T) + 1, def_value_ |-> m.def_value_]]

\* A faulty variant of Add: an overwrite of the focused key of a bucketless node is
\* written into the existing node.
Add_InPlace(T, Z, m, key, value) ==
  LET key_hash == HashValue(Hasher(key))
      f == FindHashPath(T, m, key_hash)
  IN  IF GetFocusedValue(T, Z, m, f.tree, key) = value
      THEN [trees |-> T, zmaps |-> Z, map |-> m]
      ELSE IF f.tree # nullptr /\ T[f.tree].more = nullptr
              /\ T[f.tree].key_value[1] = key
      THEN [trees |-> [T EXCEPT ![f.tree].key_value = <<key, value>>],
            zmaps |-> Z, map |-> m]
      ELSE AddNode(T, Z, m, key, value, key_hash, f)

\* A faulty variant of Add: the early return for an unchanged value is missing.
Add_AlwaysAllocate(T, Z, m, key, value) ==
  LET key_hash == HashValue(Hasher(key))
      f == FindHashPath(T, m, key_hash)
  IN  AddNode(T, Z, m, key, value, key_hash, f)

\* A faulty variant of Add: the early return is taken only when a node with the
\* key's hash was found.
Add_NoOpOnlyIfFound(T, Z, m, key, value) ==
  LET key_hash == HashValue(Hasher(key))
      f == FindHashPath(T, m, key_hash)
  IN  IF f.tree # nullptr /\ GetFocusedValue(T, Z, m, f.tree, key) = value
      THEN [trees |-> T, zmaps |-> Z, map |-> m]
      ELSE AddNode(T, Z, m, key, value, key_hash, f)

\* Add(key, value) const on the map m: the zone after the call and the map
\* returned.
Add(T, Z, m, key, value) ==
  LET key_hash == HashValue(Hasher(key))
      f == FindHashPath(T, m, key_hash)
  IN  IF GetFocusedValue(T, Z, m, f.tree, key) = value
      THEN [trees |-> T, zmaps |-> Z, map |-> m]
      ELSE AddNode(T, Z, m, key, value, key_hash, f)

\* PersistentMap(Zone* zone, Value def_value).
NewMap(def_value) == [tree_ |-> nullptr, def_value_ |-> def_value]

\* -------------------------------------------------------------- iterator
\* An iterator is the record of its fields; more_iter_ is a position in the
\* bucket of current_.

\* iterator(Value def_value): level_(0), current_(nullptr), def_value_(def_value).
IterEnd(def_value) ==
  [level_ |-> 0, more_iter_ |-> Uninit, current_ |-> nullptr,
   path_ |-> EmptyPath, def_value_ |-> def_value]

\* iterator::is_end().
IterIsEnd(i) == i.current_ = nullptr

\* iterator::operator*(): the <<key, value>> pair the iterator stands on.
IterDeref(T, Z, i) ==
  IF T[i.current_].more # nullptr
  THEN Z[T[i.current_].more][i.more_iter_]
  ELSE T[i.current_].key_value

\* GetChild(tree, level, bit).
GetChild(T, tree, level, bit) ==
  IF HashBit(T[tree].key_hash, level) = bit THEN tree
  ELSE IF level < T[tree].length THEN TreePath(T, tree, level)
  ELSE nullptr

\* A faulty variant of FindLeftmost: the right sibling is not recorded on a left
\* descent.
RECURSIVE FindLeftmost_RightForgotten(_, _, _, _)
FindLeftmost_RightForgotten(T, current, level, path) ==
  IF current # Uninit /\ level < T[current].length
  THEN LET left == GetChild(T, current, level, kLeft)
           right == GetChild(T, current, level, kRight)
       IN  IF left # nullptr
           THEN FindLeftmost_RightForgotten(T, left, level + 1,
                                            [path EXCEPT ![level] = nullptr])
           ELSE IF right # nullptr
           THEN FindLeftmost_RightForgotten(T, right, level + 1,
                                            [path EXCEPT ![level] = left])
           ELSE [current |-> Uninit, level |-> level, path |-> path]
  ELSE [current |-> current, level |-> level, path |-> path]

\* FindLeftmost(start, level, path): the leaf, the level and the path it
\* leaves behind.  The UNREACHABLE() branch yields current = Uninit.
RECURSIVE FindLeftmost(_, _, _, _)
FindLeftmost(T, current, level, path) ==
  IF current # Uninit /\ level < T[current].length
  THEN LET left == GetChild(T, current, level, kLeft)
           right == GetChild(T, current, level, kRight)
       IN  IF left # nullptr
           THEN FindLeftmost(T, left, level + 1, [path EXCEPT ![level] = right])
           ELSE IF right # nullptr
           THEN FindLeftmost(T, right, level + 1, [path EXCEPT ![level] = left])
           ELSE [current |-> Uninit, level |-> level, path |-> path]
  ELSE [current |-> current, level |-> level, path |-> path]

\* A faulty variant of IterBeginAt: more_iter_ is not set to the begin of the
\* bucket.
IterBeginAt_BucketIterNotSet(T, tree, def_value) ==
  LET f == FindLeftmost(T, tree, 0, EmptyPath)
  IN  [level_ |-> f.level,
       more_iter_ |-> Uninit,
       current_ |-> f.current,
       path_ |-> f.path,
       def_value_ |-> def_value]

\* iterator::begin(tree, def_value).
IterBeginAt(T, tree, def_value) ==
  LET f == FindLeftmost(T, tree, 0, EmptyPath)
  IN  [level_ |-> f.level,
       more_iter_ |-> IF T[f.current].more # nullptr THEN 1 ELSE Uninit,
       current_ |-> f.current,
       path_ |-> f.path,
       def_value_ |-> def_value]

\* PersistentMap::begin() and end().
MapBegin(T, m) ==
  IF m.tree_ = nullptr THEN IterEnd(m.def_value_)
  ELSE IterBeginAt(T, m.tree_, m.def_value_)

MapEnd(m) == IterEnd(m.def_value_)

\* The loop of operator++ that climbs to the nearest level with a right
\* alternative, entered after the first --level_; -1 when the iterator runs
\* off the root.
RECURSIVE ClimbToRight(_, _, _)
ClimbToRight(T, i, level) ==
  IF HashBit(T[i.current_].key_hash, level) = kRight \/ i.path_[level] = nullptr
  THEN (IF level = 0 THEN -1 ELSE ClimbToRight(T, i, level - 1))
  ELSE level

\* The end of one round of the loop of operator++: the iterator after
\*   first_right_alternative = path_[level_]; level_++;
\*   current_ = FindLeftmost(...); if (current_->more) more_iter_ = begin();
\* with level_ = level.
IterLand(T, i, level) ==
  LET f == FindLeftmost(T, i.path_[level], level + 1, i.path_)
  IN  [level_ |-> f.level,
       more_iter_ |-> IF T[f.current].more # nullptr THEN 1 ELSE i.more_iter_,
       current_ |-> f.current,
       path_ |-> f.path,
       def_value_ |-> i.def_value_]

\* iterator::operator++().
RECURSIVE IterInc(_, _, _)
IterInc(T, Z, i) ==
  IF i.current_ = nullptr THEN i
  ELSE
    LET hasMore == T[i.current_].more # nullptr
        i1 == IF hasMore THEN [i EXCEPT !.more_iter_ = i.more_iter_ + 1] ELSE i
    IN  IF hasMore /\ i1.more_iter_ # ZMapEnd(Z[T[i.current_].more]) THEN i1
        ELSE IF i1.level_ = 0 THEN IterEnd(i1.def_value_)
        ELSE
          LET level == ClimbToRight(T, i1, i1.level_ - 1)
          IN  IF level = -1 THEN IterEnd(i1.def_value_)
              ELSE
                LET i2 == IterLand(T, i1, level)
                IN  IF IterDeref(T, Z, i2)[2] = i2.def_value_
                    THEN IterInc(T, Z, i2)
                    ELSE i2

\* iterator::operator==.
IterEq(T, Z, i, j) ==
  IF IterIsEnd(i) THEN IterIsEnd(j)
  ELSE IF IterIsEnd(j) THEN FALSE
  ELSE IF T[i.current_].key_hash # T[j.current_].key_hash THEN FALSE
  ELSE IterDeref(T, Z, i)[1] = IterDeref(T, Z, j)[1]

\* A faulty variant of operator<: the two tests for end are made in the other
\* order.
IterLess_EndTestsSwapped(T, Z, i, j) ==
  IF IterIsEnd(j) THEN TRUE
  ELSE IF IterIsEnd(i) THEN FALSE
  ELSE IF HashLess(T[i.current_].key_hash, T[j.current_].key_hash) THEN TRUE
  ELSE IF T[i.current_].key_hash = T[j.current_].key_hash
  THEN IterDeref(T, Z, i)[1] < IterDeref(T, Z, j)[1]
  ELSE FALSE

\* iterator::operator<.
IterLess(T, Z, i, j) ==
  IF IterIsEnd(i) THEN FALSE
  ELSE IF IterIsEnd(j) THEN TRUE
  ELSE IF HashLess(T[i.current_].key_hash, T[j.current_].key_hash) THEN TRUE
  ELSE IF T[i.current_].key_hash = T[j.current_].key_hash
  THEN IterDeref(T, Z, i)[1] < IterDeref(T, Z, j)[1]
  ELSE FALSE

\* The iterator states of  for (auto pair : m): begin() and every state
\* operator++ produces before end() is reached.
RECURSIVE IterRunFrom(_, _, _)
IterRunFrom(T, Z, i) ==
  IF IterIsEnd(i) THEN <<>> ELSE <<i>> \o IterRunFrom(T, Z, IterInc(T, Z, i))

IterRun(T, Z, m) == IterRunFrom(T, Z, MapBegin(T, m))

\* The pairs  for (auto pair : m)  sees, in order.
IterYields(T, Z, m) ==
  LET run == IterRun(T, Z, m)
  IN  [n \in 1..Len(run) |-> IterDeref(T, Z, run[n])]

\* ------------------------------------------------------- double_iterator
\* A faulty variant of DoubleIter: equal iterators are not recognised, the first is
\* taken alone.
DoubleIter_EqualNotJoined(T, Z, first, second) ==
  IF IterLess(T, Z, first, second) \/ IterEq(T, Z, first, second)
  THEN [first_ |-> first, second_ |-> second,
        first_current_ |-> TRUE, second_current_ |-> FALSE]
  ELSE [first_ |-> first, second_ |-> second,
        first_current_ |-> FALSE, second_current_ |-> TRUE]

\* double_iterator(iterator first, iterator second).
DoubleIter(T, Z, first, second) ==
  IF IterEq(T, Z, first, second)
  THEN [first_ |-> first, second_ |-> second,
        first_current_ |-> TRUE, second_current_ |-> TRUE]
  ELSE IF IterLess(T, Z, first, second)
  THEN [first_ |-> first, second_ |-> second,
        first_current_ |-> TRUE, second_current_ |-> FALSE]
  ELSE [first_ |-> first, second_ |-> second,
        first_current_ |-> FALSE, second_current_ |-> TRUE]

\* A faulty variant of DoubleDeref: for a key that only one side stands on,
\* the other side reports a value-initialised Value, 0, instead of the default
\* value of its map.
DoubleDeref_AbsentIsZero(T, Z, d) ==
  IF d.first_current_
  THEN LET pair == IterDeref(T, Z, d.first_)
       IN  <<pair[1], pair[2],
             IF d.second_current_ THEN IterDeref(T, Z, d.second_)[2] ELSE 0>>
  ELSE LET pair == IterDeref(T, Z, d.second_)
       IN  <<pair[1], 0, pair[2]>>

\* double_iterator::operator*(): the triple <<key, value in a, value in b>>.
DoubleDeref(T, Z, d) ==
  IF d.first_current_
  THEN LET pair == IterDeref(T, Z, d.first_)
       IN  <<pair[1], pair[2],
             IF d.second_current_ THEN IterDeref(T, Z, d.second_)[2]
             ELSE d.second_.def_value_>>
  ELSE LET pair == IterDeref(T, Z, d.second_)
       IN  <<pair[1], d.first_.def_value_, pair[2]>>

\* A faulty variant of DoubleInc: a side is advanced only when it is current
\* alone, so nothing moves when both sides stand on the same key.
DoubleInc_TieNotAdvanced(T, Z, d) ==
  DoubleIter(T, Z,
             IF d.first_current_ /\ ~d.second_current_
             THEN IterInc(T, Z, d.first_) ELSE d.first_,
             IF d.second_current_ /\ ~d.first_current_
             THEN IterInc(T, Z, d.second_) ELSE d.second_)

\* double_iterator::operator++().
DoubleInc(T, Z, d) ==
  DoubleIter(T, Z,
             IF d.first_current_ THEN IterInc(T, Z, d.first_) ELSE d.first_,
             IF d.second_current_ THEN IterInc(T, Z, d.second_) ELSE d.second_)

\* double_iterator::operator!=.
DoubleNeq(T, Z, d, e) ==
  ~IterEq(T, Z, d.first_, e.first_) \/ ~IterEq(T, Z, d.second_, e.second_)

\* ZipIterable::begin() and end() of a.Zip(b).
ZipBegin(T, Z, a, b) == DoubleIter(T, Z, MapBegin(T, a), MapBegin(T, b))
ZipEnd(T, Z, a, b) == DoubleIter(T, Z, MapEnd(a), MapEnd(b))

\* The triples  for (triple : a.Zip(b))  sees, in order.
RECURSIVE ZipYieldsFrom(_, _, _, _)
ZipYieldsFrom(T, Z, d, end) ==
  IF DoubleNeq(T, Z, d, end)
  THEN <<DoubleDeref(T, Z, d)>> \o ZipYieldsFrom(T, Z, DoubleInc(T, Z, d), end)
  ELSE <<>>

ZipYields(T, Z, a, b) == ZipYieldsFrom(T, Z, ZipBegin(T, Z, a, b), ZipEnd(T, Z, a, b))

\* A faulty variant of operator==: only the O(1) test of the roots, without
\* the walk over the two maps that settles maps of different roots.
MapEq_RootsOnly(T, Z, a, b) == a.tree_ = b.tree_

\* A faulty variant of operator==: only the entries of the left map are
\* looked up in the right map, the entries of the right map are not walked.
MapEq_LeftEntriesOnly(T, Z, a, b) ==
  IF a.tree_ = b.tree_ THEN TRUE
  ELSE IF a.def_value_ # b.def_value_ THEN FALSE
  ELSE LET ys == IterYields(T, Z, a)
       IN  \A n \in 1..Len(ys) : Get(T, Z, b, ys[n][1]) = ys[n][2]

\* PersistentMap::operator==.
MapEq(T, Z, a, b) ==
  IF a.tree_ = b.tree_ THEN TRUE
  ELSE IF a.def_value_ # b.def_value_ THEN FALSE
  ELSE LET zs == ZipYields(T, Z, a, b)
       IN  \A n \in 1..Len(zs) : zs[n][2] = zs[n][3]

\* PersistentMap::operator!=.
MapNeq(T, Z, a, b) == ~MapEq(T, Z, a, b)

\* ------------------------------------------- assertions of the traversals
\* FocusedTree::path(i) on node t: DCHECK(i < length), on an index that is
\* not negative and inside the slots allocated for the node.
PathDcheck(T, t, i) ==
  0 <= i /\ i < T[t].length /\ (i + 1) \in DOMAIN T[t].path_array

\* HashValue::operator[](pos) reads bits_[kHashBits - pos - 1], a bit of the
\* bitset only for pos in 0..kHashBits-1.
BitIndexInRange(pos) == 0 <= pos /\ pos < kHashBits

\* The run of either FindHash overload from `tree` at `level`: every hash bit
\* read is a bit of the hash (the inner loop stops before level reaches
\* kHashBits) and every path(level) call passes its DCHECK.
RECURSIVE FindHashDchecks(_, _, _, _)
FindHashDchecks(T, hash, tree, level) ==
  IF tree # nullptr /\ hash # T[tree].key_hash
  THEN \A lv \in {SkipEqualBits(hash, T[tree].key_hash, level)} :
         /\ BitIndexInRange(level)
         /\ BitIndexInRange(lv)
         /\ \A i \in level..lv : i < T[tree].length => PathDcheck(T, tree, i)
         /\ FindHashDchecks(T, hash,
                            IF lv < T[tree].length THEN TreePath(T, tree, lv)
                            ELSE nullptr,
                            lv + 1)
  ELSE tree # nullptr =>
         \A i \in level..(T[tree].length - 1) :
           PathDcheck(T, tree, i) /\ i < kHashBits

\* The loop of Add that fills the new node, tree->path(i) = path[i] for
\* i < length, on a node whose length field is static_cast<int8_t>(length).
AddDchecks(T, m, key) ==
  \A f \in {FindHashPath(T, m, HashValue(Hasher(key)))} :
    \A i \in 0..(f.length - 1) : i < Int8(f.length) /\ i < kHashBits

\* FindLeftmost(start, level, path) does not take its UNREACHABLE() branch
\* and reads hash bits inside the hash only.
FindLeftmostDchecks(T, start, level) ==
  \A f \in {FindLeftmost(T, start, level, EmptyPath)} :
    f.current # Uninit /\ f.level <= kHashBits

\* One operator++ on the iterator i, every round of its loop:
\* DCHECK(more_iter_ != more->end()), the hash bits and path_ slots read
\* while climbing, and the FindLeftmost call.
RECURSIVE IterIncDchecks(_, _, _)
IterIncDchecks(T, Z, i) ==
  IF i.current_ = nullptr THEN TRUE
  ELSE
    /\ T[i.current_].more # nullptr =>
         i.more_iter_ \in 1..Len(Z[T[i.current_].more])
    /\ i.level_ <= kHashBits
    /\ IF /\ T[i.current_].more # nullptr
          /\ i.more_iter_ + 1 # ZMapEnd(Z[T[i.current_].more])
       THEN TRUE
       ELSE IF i.level_ = 0 THEN TRUE
       ELSE \A level \in {ClimbToRight(T, i, i.level_ - 1)} :
              level # -1 =>
                /\ BitIndexInRange(level)
                /\ i.path_[level] \in 1..Len(T)
                /\ FindLeftmostDchecks(T, i.path_[level], level + 1)
                /\ \A i2 \in {IterLand(T, i, level)} :
                     IterDeref(T, Z, i2)[2] = i2.def_value_ =>
                       IterIncDchecks(T, Z, i2)

\* ------------------------------------------------ lengths of the loops
\* The outer loop of either FindHash overload, from `tree` at `level`, ends
\* within n rounds, and the inner loop of every round stops on a differing
\* bit of the hash.
RECURSIVE FindHashEndsWithin(_, _, _, _, _)
FindHashEndsWithin(T, hash, tree, level, n) ==
  IF tree # nullptr /\ hash # T[tree].key_hash
  THEN /\ n > 0
       /\ \A lv \in {SkipEqualBits(hash, T[tree].key_hash, level)} :
            /\ lv < kHashBits
            /\ FindHashEndsWithin(T, hash,
                                  IF lv < T[tree].length
                                  THEN TreePath(T, tree, lv) ELSE nullptr,
                                  lv + 1, n - 1)
  ELSE TRUE

\* for (it = i; it != end(); ++it) ends within n operator++ calls.
RECURSIVE IterEndsWithin(_, _, _, _)
IterEndsWithin(T, Z, i, n) ==
  IF IterIsEnd(i) THEN TRUE
  ELSE n > 0 /\ IterEndsWithin(T, Z, IterInc(T, Z, i), n - 1)

\* for (d = begin; d != end; ++d) over a zip ends within n operator++
\* calls.
RECURSIVE ZipEndsWithin(_, _, _, _, _)
ZipEndsWithin(T, Z, d, end, n) ==
  IF ~DoubleNeq(T, Z, d, end) THEN TRUE
  ELSE n > 0 /\ ZipEndsWithin(T, Z, DoubleInc(T, Z, d), end, n - 1)

\* -------------------------------------------------------------- actions
\* An empty zone; every handle is constructed with some default value.
Init ==
  /\ trees = <<>>
  /\ zmaps = <<>>
  /\ maps \in [Handles -> {NewMap(d) : d \in DefValues}]

\* dst = src.Add(key, value).
AddTo(src, dst, key, value) ==
  /\ src # dst
  /\ Len(trees) < MaxNodes
  /\ \E r \in {Add(trees, zmaps, maps[src], key, value)} :
       /\ trees' = r.trees
       /\ zmaps' = r.zmaps
       /\ maps' = [maps EXCEPT ![dst] = r.map]

\* A faulty variant of Set: the handles that are copies of h follow the assignment.
Set_CopiesFollow(h, key, value) ==
  /\ Len(trees) < MaxNodes
  /\ \E r \in {Add(trees, zmaps, maps[h], key, value)} :
       /\ trees' = r.trees
       /\ zmaps' = r.zmaps
       /\ maps' = [g \in Handles |-> IF maps[g] = maps[h] THEN r.map ELSE maps[g]]

\* h.Set(key, value): *this = Add(key, value).
Set(h, key, value) ==
  /\ Len(trees) < MaxNodes
  /\ \E r \in {Add(trees, zmaps, maps[h], key, value)} :
       /\ trees' = r.trees
       /\ zmaps' = r.zmaps
       /\ maps' = [maps EXCEPT ![h] = r.map]

Next ==
  \/ \E src \in Handles, dst \in Handles, k \in Keys, v \in Values :
       AddTo(src, dst, k, v)
  \/ \E h \in Handles, k \in Keys, v \in Values : Set(h, k, v)

Spec == Init /\ [][Next]_vars

\* A client that constructs its maps with one default value and builds one
\* map by successive Set calls on handle "a".
InitSet ==
  /\ trees = <<>>
  /\ zmaps = <<>>
  /\ \E d \in DefValues : maps = [h \in Handles |-> NewMap(d)]

NextSet == \E k \in Keys, v \in Values : Set("a", k, v)

SpecSet == InitSet /\ [][NextSet]_vars

\* A client that builds one map by Set calls on handle "a" and then evaluates
\* an expression that adds to it twice: the building stops while the zone has
\* room for a node besides the one a Set allocates.
NextExpr ==
  \E k \in Keys, v \in Values : Len(trees) + 1 < MaxNodes /\ Set("a", k, v)

SpecExpr == InitSet /\ [][NextExpr]_vars

\* Keys whose hash stamps differ first at positions spread over the word:
\* 1 and 3 at the last position, 4 and 65535 from them at the first two,
\* 5, 6, 255 and 256 among themselves inside the upper half.
StampKeys == {1, 3, 4, 5, 6, 255, 256, 65535}

\* A client that binds keys of many hash stamps on handle "a".
NextStamps == \E k \in StampKeys : Set("a", k, 2)

SpecStamps == InitSet /\ [][NextStamps]_vars

\* ------------------------------------------------------------ properties
\* The hash stamp of a key.
KeyHash(key) == HashValue(Hasher(key))

\* (hash(k1), k1) < (hash(k2), k2) in lexicographic order.
StampKeyLess(k1, k2) ==
  \/ HashLess(KeyHash(k1), KeyHash(k2))
  \/ (KeyHash(k1) = KeyHash(k2) /\ k1 < k2)

\* The maps the handles hold.
HeldMaps == {maps[h] : h \in Handles}

\* The nodes of the zone.
Nodes == 1..Len(trees)

\* Hash stamps to look up: those of the keys and some no key has.
ProbeHashes ==
  {KeyHash(k) : k \in Keys} \cup {<<0, 0>>, <<65535, 65535>>, <<32768, 2>>, <<49152, 1>>}

\* The keys with hash stamp `hash` that the Set calls which built the map
\* bound.  Every allocating Add leaves one node in the zone, focused on the
\* key it bound, and under SpecSet the zone holds the nodes of one map's
\* history only.
HistoryKeys(T, hash) ==
  {T[t].key_value[1] : t \in {u \in 1..Len(T) : T[u].key_hash = hash}}

\* The <<key, value>> pairs of a bucket.
ZMapPairs(b) == {b[i] : i \in 1..Len(b)}

\* The nodes of the logical tree met from `tree`, standing at `level`, by
\* following the bits of `hash` with GetChild: the n-th is the node at depth
\* level + n - 1; the walk ends at depth kHashBits or on nullptr.
RECURSIVE DescendTrace(_, _, _, _)
DescendTrace(T, tree, hash, level) ==
  IF tree = nullptr \/ level >= kHashBits THEN <<tree>>
  ELSE <<tree>> \o DescendTrace(T, GetChild(T, tree, level, HashBit(hash, level)),
                                hash, level + 1)

\* The two hashes agree on the bit positions 0..d-1 of HashValue::operator[],
\* which are the d most significant bits of the word.
SamePrefix(h1, h2, d) ==
  IF d = 0 THEN TRUE
  ELSE IF d <= 16 THEN h1[1] \div Pow2[16 - d] = h2[1] \div Pow2[16 - d]
  ELSE h1[1] = h2[1] /\ h1[2] \div Pow2[32 - d] = h2[2] \div Pow2[32 - d]

\* The iterators a client gets from map m: begin(), end(), and what
\* operator++ makes of begin() and of each of its results, the end iterator
\* the last operator++ assigns included.
IterReached(T, Z, m) ==
  LET run == IterRun(T, Z, m)
  IN  {MapBegin(T, m), MapEnd(m)}
        \cup {run[n] : n \in 1..Len(run)}
        \cup {IterInc(T, Z, run[n]) : n \in 1..Len(run)}

\* The hash stamps of the nodes of the zone.
ZoneStamps == {trees[n].key_hash : n \in Nodes}

\* The first position at or after pos, position 0 the most significant bit,
\* at which operator[] gives different bits for h1 and h2; kHashBits when
\* there is none.
RECURSIVE FirstDifference(_, _, _)
FirstDifference(h1, h2, pos) ==
  IF pos >= kHashBits THEN kHashBits
  ELSE IF HashBit(h1, pos) # HashBit(h2, pos) THEN pos
  ELSE FirstDifference(h1, h2, pos + 1)

\* C1 (Get-after-Add): for every map m a handle holds, every key k and every
\* value v, m.Add(k, v).Get(k) = v.
C1_GetAfterAdd ==
  \A m \in HeldMaps, k \in Keys, v \in Values :
    \A r \in {Add(trees, zmaps, m, k, v)} :
      Get(r.trees, r.zmaps, r.map, k) = v

\* C1 witness: a handle holds a map whose root was added for a key of a
\* collision bucket with the default value, and Get returns that value.
C1_Witness ==
  \E m \in HeldMaps :
    /\ m.tree_ # nullptr
    /\ trees[m.tree_].more # nullptr
    /\ trees[m.tree_].key_value[2] = m.def_value_
    /\ Get(trees, zmaps, m, trees[m.tree_].key_value[1]) = m.def_value_

\* C2 (Get-other): for every map m a handle holds, keys k1 # k2 and value v,
\* m.Add(k1, v).Get(k2) = m.Get(k2).
C2_GetOther ==
  \A m \in HeldMaps :
    \A was \in {[k \in Keys |-> Get(trees, zmaps, m, k)]} :
      \A k1 \in Keys, v \in Values :
        \A r \in {Add(trees, zmaps, m, k1, v)} :
          \A k2 \in Keys \ {k1} :
            Get(r.trees, r.zmaps, r.map, k2) = was[k2]

\* C2 witness: a handle holds a map whose root carries a bucket in which a
\* key other than the one just added is still bound to a non-default value.
C2_Witness ==
  \E m \in HeldMaps :
    /\ m.tree_ # nullptr
    /\ trees[m.tree_].more # nullptr
    /\ \E k2 \in Keys \ {trees[m.tree_].key_value[1]} :
         /\ KeyHash(k2) = trees[m.tree_].key_hash
         /\ Get(trees, zmaps, m, k2) # m.def_value_

\* C3 (Persistence): no step changes what Get returns, for any key, on a
\* map that a handle held before the step.
C3_Persistence ==
  [][\A m \in HeldMaps, k \in Keys :
       Get(trees', zmaps', m, k) = Get(trees, zmaps, m, k)]_vars

\* C3 witness: handle "b" holds a map made by Add from the map handle "a"
\* still holds, some key is bound to different non-default values in the
\* two, and "a" still sees the old one.
C3_Witness ==
  /\ maps["a"].tree_ # nullptr
  /\ maps["b"].tree_ > maps["a"].tree_
  /\ \E k \in Keys :
       /\ trees[maps["a"].tree_].key_value[1] = k
       /\ trees[maps["b"].tree_].key_value[1] = k
       /\ Get(trees, zmaps, maps["a"], k) = trees[maps["a"].tree_].key_value[2]
       /\ Get(trees, zmaps, maps["a"], k) # maps["a"].def_value_
       /\ Get(trees, zmaps, maps["b"], k) # maps["b"].def_value_
       /\ Get(trees, zmaps, maps["a"], k) # Get(trees, zmaps, maps["b"], k)

\* C4 (Identity short-circuit): m.Add(k, m.Get(k)) allocates nothing and
\* returns m's root; Add(k, v).Add(k, v) returns the root of Add(k, v).
C4_IdentityShortCircuit ==
  \A m \in HeldMaps, k \in Keys :
    /\ \A r \in {Add(trees, zmaps, m, k, Get(trees, zmaps, m, k))} :
         r.map.tree_ = m.tree_ /\ r.trees = trees /\ r.zmaps = zmaps
    /\ \A v \in Values :
         \A r1 \in {Add(trees, zmaps, m, k, v)} :
           \A r2 \in {Add(r1.trees, r1.zmaps, r1.map, k, v)} :
             r2.map.tree_ = r1.map.tree_ /\ r2.trees = r1.trees

\* C4 witness: a handle holds a map in which a key of a collision bucket is
\* bound, and another key is unbound (so both short-circuits are exercised).
C4_Witness ==
  \E m \in HeldMaps :
    /\ m.tree_ # nullptr
    /\ trees[m.tree_].more # nullptr
    /\ Len(zmaps[trees[m.tree_].more]) = 2
    /\ \E k \in Keys : FindHash(trees, m, KeyHash(k)) = nullptr

\* C5 (Set-to-default erases from iteration): the forward iterator of a map
\* a handle holds, run from begin() to end(), never yields a pair whose
\* value is the map's default value.
C5_DefaultNeverYielded ==
  \A m \in HeldMaps :
    \A ys \in {IterYields(trees, zmaps, m)} :
      \A n \in 1..Len(ys) : ys[n][2] # m.def_value_

\* C6 (Iteration completeness): every key bound to a non-default value is
\* yielded exactly once, with the value Get returns, and no key is yielded
\* twice.
C6_IterationComplete ==
  \A m \in HeldMaps :
    \A ys \in {IterYields(trees, zmaps, m)} :
      /\ \A k \in Keys :
           Get(trees, zmaps, m, k) # m.def_value_ =>
             /\ Cardinality({n \in 1..Len(ys) : ys[n][1] = k}) = 1
             /\ \A n \in 1..Len(ys) :
                  ys[n][1] = k => ys[n][2] = Get(trees, zmaps, m, k)
      /\ \A n1, n2 \in 1..Len(ys) : n1 # n2 => ys[n1][1] # ys[n2][1]

\* C6 witness: a map with three keys bound to non-default values, two of
\* them in one collision bucket, all three yielded.
C6_Witness ==
  \E m \in HeldMaps :
    /\ m.tree_ # nullptr
    /\ Cardinality({k \in Keys : Get(trees, zmaps, m, k) # m.def_value_}) = 3
    /\ \E t \in 1..Len(trees) :
         trees[t].more # nullptr /\ FindHash(trees, m, trees[t].key_hash) = t
    /\ Len(IterYields(trees, zmaps, m)) = 3

\* C7 (Iteration order): the pairs (hash(k), k) of successively yielded keys
\* are strictly increasing in lexicographic order.
C7_IterationOrder ==
  \A m \in HeldMaps :
    \A ys \in {IterYields(trees, zmaps, m)} :
      \A n \in 1..(Len(ys) - 1) : StampKeyLess(ys[n][1], ys[n + 1][1])

\* C7 witness: an iteration that first steps from one hash stamp to a
\* greater one holding a smaller key, and then steps inside a bucket.
C7_Witness ==
  \E m \in HeldMaps :
    \E ys \in {IterYields(trees, zmaps, m)} :
      /\ Len(ys) = 3
      /\ ys[1][1] > ys[2][1]
      /\ KeyHash(ys[2][1]) = KeyHash(ys[3][1])

\* C8 (Equality coherence): A == B exactly when the defaults are equal and
\* Get agrees on every key.
C8_EqualityCoherence ==
  \A a \in HeldMaps, b \in HeldMaps :
    MapEq(trees, zmaps, a, b) <=>
      (/\ a.def_value_ = b.def_value_
       /\ \A k \in Keys : Get(trees, zmaps, a, k) = Get(trees, zmaps, b, k))

\* C9 (Zip coverage): the double iterator over (A, B) yields a triple for k
\* exactly when k is bound to a non-default value in A or in B, and every
\* triple carries the values Get returns on each side.
C9_ZipCoverage ==
  \A a \in HeldMaps, b \in HeldMaps :
    \A zs \in {ZipYields(trees, zmaps, a, b)} :
      /\ \A k \in Keys :
           (\E n \in 1..Len(zs) : zs[n][1] = k) <=>
             (\/ Get(trees, zmaps, a, k) # a.def_value_
              \/ Get(trees, zmaps, b, k) # b.def_value_)
      /\ \A n \in 1..Len(zs) :
           /\ zs[n][2] = Get(trees, zmaps, a, zs[n][1])
           /\ zs[n][3] = Get(trees, zmaps, b, zs[n][1])

\* C10 (Iterator step postcondition): after every operator++ the iterator is
\* at end or stands on an entry whose value differs from the default.
C10_StepPostcondition ==
  \A m \in HeldMaps :
    \A run \in {IterRun(trees, zmaps, m)} :
      \A n \in 1..Len(run) :
        \A j \in {IterInc(trees, zmaps, run[n])} :
          IterIsEnd(j) \/ IterDeref(trees, zmaps, j)[2] # j.def_value_

\* C11 (Zip lock-step): a key both forward iterators yield appears in exactly
\* one triple, which carries the value each side yields; no key appears in
\* two triples; the pairs (hash(k), k) of successive triples are strictly
\* increasing.
C11_ZipLockStep ==
  \A a \in HeldMaps, b \in HeldMaps :
    \A zs \in {ZipYields(trees, zmaps, a, b)} :
      \A ya \in {IterYields(trees, zmaps, a)} :
        \A yb \in {IterYields(trees, zmaps, b)} :
          /\ \A i \in 1..Len(ya), j \in 1..Len(yb) :
               ya[i][1] = yb[j][1] =>
                 /\ Cardinality({n \in 1..Len(zs) : zs[n][1] = ya[i][1]}) = 1
                 /\ \A n \in 1..Len(zs) :
                      zs[n][1] = ya[i][1] =>
                        zs[n][2] = ya[i][2] /\ zs[n][3] = yb[j][2]
          /\ \A n1, n2 \in 1..Len(zs) : n1 # n2 => zs[n1][1] # zs[n2][1]
          /\ \A n \in 1..(Len(zs) - 1) : StampKeyLess(zs[n][1], zs[n + 1][1])

\* C11 witness: the two handles hold maps with different roots; the zip has
\* a triple for a key both sides yield with different values and a triple
\* for a key only one side yields.
C11_Witness ==
  /\ maps["a"].tree_ # nullptr
  /\ maps["b"].tree_ # nullptr
  /\ maps["a"].tree_ # maps["b"].tree_
  /\ \E zs \in {ZipYields(trees, zmaps, maps["a"], maps["b"])} :
       \E ya \in {IterYields(trees, zmaps, maps["a"])} :
         \E yb \in {IterYields(trees, zmaps, maps["b"])} :
           /\ \E n \in 1..Len(zs) :
                /\ \E i \in 1..Len(ya) : ya[i][1] = zs[n][1]
                /\ \E j \in 1..Len(yb) : yb[j][1] = zs[n][1]
                /\ zs[n][2] # zs[n][3]
           /\ \E n \in 1..Len(zs) :
                /\ \E i \in 1..Len(ya) : ya[i][1] = zs[n][1]
                /\ \A j \in 1..Len(yb) : yb[j][1] # zs[n][1]

\* C12 (Trie shape): every non-null side[i] of every node of the zone has a
\* key_hash that agrees with the node's on the bits 0..i-1 and differs from
\* it on bit i; and every node reached at depth d in the logical tree of a
\* held map has the first d hash bits equal to the path taken.
C12_TrieShape ==
  /\ \A t \in Nodes :
       \A i \in 0..(trees[t].length - 1) :
         \A c \in {TreePath(trees, t, i)} :
           c # nullptr =>
             /\ c \in Nodes
             /\ SamePrefix(trees[c].key_hash, trees[t].key_hash, i)
             /\ HashBit(trees[c].key_hash, i) # HashBit(trees[t].key_hash, i)
  /\ \A m \in HeldMaps, h \in ProbeHashes :
       \A tr \in {DescendTrace(trees, m.tree_, h, 0)} :
         \A n \in 1..Len(tr) :
           tr[n] # nullptr => SamePrefix(trees[tr[n]].key_hash, h, n - 1)

\* C12 witness: a node of full length with a side branch at the first and at
\* the last level.
C12_Witness ==
  \E t \in Nodes :
    /\ trees[t].length = kHashBits
    /\ TreePath(trees, t, 0) # nullptr
    /\ TreePath(trees, t, kHashBits - 1) # nullptr
    /\ \E m \in HeldMaps : m.tree_ = t

\* C13 as stated (No default-valued focused leaf): no node without a
\* collision bucket stores the map's default value as the value of its
\* focused key.
C13_NoDefaultFocusedLeaf ==
  \A t \in Nodes :
    trees[t].more = nullptr => trees[t].key_value[2] # maps["a"].def_value_

\* C13 as amended: a step allocates a node without a collision bucket that
\* stores the map's default value only by overwriting, in a node without a
\* bucket, a non-default value of that same key.
C13_DefaultLeafOnlyByOverwrite ==
  [][\A t \in (Len(trees) + 1)..Len(trees') :
       (/\ trees'[t].more = nullptr
        /\ trees'[t].key_value[2] = maps'["a"].def_value_)
       => \A old \in {FindHash(trees, maps["a"], trees'[t].key_hash)} :
            /\ old # nullptr
            /\ trees[old].more = nullptr
            /\ trees[old].key_value[1] = trees'[t].key_value[1]
            /\ trees[old].key_value[2] # maps["a"].def_value_]_vars

\* C13 witness: the root of the map is a node without a bucket that stores
\* the default value, above an older node for the same key.
C13_Witness ==
  /\ maps["a"].tree_ > 1
  /\ trees[maps["a"].tree_].more = nullptr
  /\ trees[maps["a"].tree_].key_value[2] = maps["a"].def_value_

\* C14 (Collision bucket presence): after every step, the node holding a
\* hash stamp in the map has a bucket exactly when at least two distinct
\* keys with that stamp were bound in the map's history; every bucket is
\* non-empty and holds only keys whose hash is the node's key_hash; and a
\* bucket the step allocated is the old bucket, or the old node's single
\* pair, with the key bound to the value.
C14_BucketPresence ==
  [][/\ \A h \in ProbeHashes :
          \A n \in {FindHash(trees', maps'["a"], h)} :
            n # nullptr =>
              (trees'[n].more # nullptr
                 <=> Cardinality(HistoryKeys(trees', h)) >= 2)
     /\ \A t \in 1..Len(trees') :
          trees'[t].more # nullptr =>
            /\ Len(zmaps'[trees'[t].more]) >= 1
            /\ \A i \in 1..Len(zmaps'[trees'[t].more]) :
                 KeyHash(zmaps'[trees'[t].more][i][1]) = trees'[t].key_hash
     /\ \A z \in (Len(zmaps) + 1)..Len(zmaps') :
          \A n \in {trees'[Len(trees')]} :
            \A old \in {FindHash(trees, maps["a"], n.key_hash)} :
              /\ Len(trees') = Len(trees) + 1
              /\ n.more = z
              /\ old # nullptr
              /\ ZMapPairs(zmaps'[z]) =
                   {p \in (IF trees[old].more # nullptr
                           THEN ZMapPairs(zmaps[trees[old].more])
                           ELSE {trees[old].key_value}) : p[1] # n.key_value[1]}
                   \cup {n.key_value}
              /\ \A i \in 1..(Len(zmaps'[z]) - 1) :
                   zmaps'[z][i][1] < zmaps'[z][i + 1][1]]_vars

\* C14 witness: the root carries the second bucket of the zone, copied from
\* the first one with another value for one of its keys, and a node for
\* another hash stamp has none.
C14_Witness ==
  /\ Len(zmaps) = 2
  /\ maps["a"].tree_ # nullptr
  /\ trees[maps["a"].tree_].more = 2
  /\ Len(zmaps[2]) = 2
  /\ zmaps[2] # zmaps[1]
  /\ {zmaps[2][i][1] : i \in 1..2} = {zmaps[1][i][1] : i \in 1..2}

\* C15 (Bucket is authoritative): in every node with a bucket, the bucket
\* binds key_value.key to key_value.value; and Get, for a key whose stamp
\* is held by a node with a bucket, returns the bucket's binding, or the
\* default if the bucket has none.
C15_BucketAuthoritative ==
  /\ \A t \in Nodes :
       trees[t].more # nullptr =>
         trees[t].key_value \in ZMapPairs(zmaps[trees[t].more])
  /\ \A m \in HeldMaps, k \in Keys :
       \A n \in {FindHash(trees, m, KeyHash(k))} :
         (n # nullptr /\ trees[n].more # nullptr) =>
           \A ps \in {{p \in ZMapPairs(zmaps[trees[n].more]) : p[1] = k}} :
             /\ Cardinality(ps) <= 1
             /\ \A p \in ps : Get(trees, zmaps, m, k) = p[2]
             /\ ps = {} => Get(trees, zmaps, m, k) = m.def_value_

\* C15 witness: the root has a bucket in which its own key was overwritten
\* (an older bucket binds it to another value), and Get returns the new one.
C15_Witness ==
  \E m \in HeldMaps :
    /\ m.tree_ # nullptr
    /\ trees[m.tree_].more = 2
    /\ \E p \in ZMapPairs(zmaps[1]) :
         /\ p[1] = trees[m.tree_].key_value[1]
         /\ p[2] # trees[m.tree_].key_value[2]
    /\ Get(trees, zmaps, m, trees[m.tree_].key_value[1])
         = trees[m.tree_].key_value[2]

\* C16 (Assertion validity of traversals): for the map and every key and
\* hash stamp, Get and Add read only hash bits 0..31 and pass the DCHECK of
\* every path(i) call; begin() and every operator++ of a full iteration
\* pass DCHECK(more_iter_ != more->end()) and never take the UNREACHABLE
\* branch of FindLeftmost.
C16_AssertionsHold ==
  \A m \in HeldMaps :
    /\ \A h \in ProbeHashes : FindHashDchecks(trees, h, m.tree_, 0)
    /\ \A k \in Keys : AddDchecks(trees, m, k)
    /\ m.tree_ # nullptr => FindLeftmostDchecks(trees, m.tree_, 0)
    /\ \A run \in {IterRun(trees, zmaps, m)} :
         \A n \in 1..Len(run) : IterIncDchecks(trees, zmaps, run[n])

\* C16 witness: a map whose root has full length, in which a lookup of
\* another stamp reads the last hash bit, and whose iteration walks through
\* a bucket and climbs to a right alternative.
C16_Witness ==
  \E m \in HeldMaps :
    /\ m.tree_ # nullptr
    /\ trees[m.tree_].length = kHashBits
    /\ \E k \in Keys :
         /\ SkipEqualBits(KeyHash(k), trees[m.tree_].key_hash, 0) = kHashBits - 1
         /\ FindHash(trees, m, KeyHash(k)) \notin {nullptr, m.tree_}
    /\ \E run \in {IterRun(trees, zmaps, m)} :
         /\ Len(run) = 3
         /\ run[1].current_ # run[2].current_
         /\ run[2].current_ = run[3].current_

\* C17 (Node length): for the map and every key, the length the
\* path-recording FindHash reports is the greatest index it recorded plus
\* one (0 if it recorded none), lies in 0..32, is unchanged by the cast to
\* int8_t, and every slot below it was recorded; every node of the zone has
\* a length in 0..32 and that many slots, none of them unrecorded.
C17_NodeLength ==
  /\ \A m \in HeldMaps, k \in Keys :
       \A f \in {FindHashPath(trees, m, KeyHash(k))} :
         \A rec \in {{i \in 0..(kHashBits - 1) : f.path[i] # Uninit}} :
           /\ \A i \in rec : i < f.length
           /\ (f.length - 1) \in rec \/ (f.length = 0 /\ rec = {})
           /\ 0 <= f.length /\ f.length <= kHashBits
           /\ Int8(f.length) = f.length
           /\ \A i \in 0..(f.length - 1) : i \in rec
  /\ \A t \in Nodes :
       /\ 0 <= trees[t].length /\ trees[t].length <= kHashBits
       /\ DOMAIN trees[t].path_array = 1..trees[t].length
       /\ \A i \in 0..(trees[t].length - 1) : TreePath(trees, t, i) # Uninit

\* C17 witness: the zone holds a node of length 1 and the root has length
\* 32, so an Add of the root's key copies all 32 side pointers.
C17_Witness ==
  \E m \in HeldMaps :
    /\ m.tree_ # nullptr
    /\ trees[m.tree_].length = kHashBits
    /\ \E t \in Nodes : trees[t].length = 1
    /\ FindHashPath(trees, m, trees[m.tree_].key_hash).length = kHashBits

\* C18 (Termination): for the maps the handles hold, the FindHash loop of
\* Get and Add ends within 32 rounds for every key and probed stamp; the
\* forward iterator reaches end() from begin() within as many operator++
\* calls as there are keys; the double iterator over any two of the maps
\* reaches its end within as many steps as there are keys (the loop of
\* operator== is that zip, left early or at its end).
C18_Termination ==
  /\ \A m \in HeldMaps :
       /\ \A h \in ProbeHashes :
            FindHashEndsWithin(trees, h, m.tree_, 0, kHashBits)
       /\ IterEndsWithin(trees, zmaps, MapBegin(trees, m), Cardinality(Keys))
  /\ \A a \in HeldMaps, b \in HeldMaps :
       ZipEndsWithin(trees, zmaps, ZipBegin(trees, zmaps, a, b),
                     ZipEnd(trees, zmaps, a, b), Cardinality(Keys))

\* C18 witness: the two handles hold maps with different roots whose zip
\* takes three steps, and the forward iteration of one of them takes three.
C18_Witness ==
  /\ maps["a"].tree_ # nullptr
  /\ maps["b"].tree_ # nullptr
  /\ maps["a"].tree_ # maps["b"].tree_
  /\ Len(ZipYields(trees, zmaps, maps["a"], maps["b"])) = 3
  /\ Len(IterRun(trees, zmaps, maps["a"])) = 3
  /\ Len(IterRun(trees, zmaps, maps["b"])) < 3

\* C19 (Frame of Add and Set): a step changes at most one handle, every
\* other handle keeps its root pointer and default value, and no node or
\* bucket that existed is changed.  A step of an Add that is not a no-op
\* allocates exactly one node and at most one bucket, and the handle
\* assigned holds the new node as root with the default value of a map held
\* before (the receiver, with which it agrees on every key but the one
\* added); a step of a no-op allocates nothing and the handle assigned holds
\* a map held before.
C19_Frame ==
  [][/\ \A t \in 1..Len(trees) : trees'[t] = trees[t]
     /\ \A z \in 1..Len(zmaps) : zmaps'[z] = zmaps[z]
     /\ Cardinality({h \in Handles : maps'[h] # maps[h]}) <= 1
     /\ IF trees' = trees
        THEN /\ zmaps' = zmaps
             /\ \A h \in Handles : maps'[h] \in HeldMaps
        ELSE /\ Len(trees') = Len(trees) + 1
             /\ Len(zmaps') \in {Len(zmaps), Len(zmaps) + 1}
             /\ Cardinality({h \in Handles : maps'[h] # maps[h]}) = 1
             /\ \A h \in Handles :
                  maps'[h] # maps[h] =>
                    /\ maps'[h].tree_ = Len(trees')
                    /\ \E m \in HeldMaps :
                         /\ m.def_value_ = maps'[h].def_value_
                         /\ \A k \in Keys \ {trees'[Len(trees')].key_value[1]} :
                              Get(trees', zmaps', maps'[h], k)
                                = Get(trees, zmaps, m, k)]_vars

\* C19 witness: handle "a" holds the newest node, allocated with a new
\* bucket, and handle "b" still holds the root the Add started from.
C19_Witness ==
  /\ Len(trees) >= 2
  /\ Len(zmaps) >= 1
  /\ maps["a"].tree_ = Len(trees)
  /\ trees[maps["a"].tree_].more = Len(zmaps)
  /\ maps["b"].tree_ = Len(trees) - 1
  /\ trees[maps["b"].tree_].key_hash = trees[maps["a"].tree_].key_hash

\* C20 (Lookup agrees with the logical tree): for the map and every hash
\* stamp, the node FindHash returns is the node reached by descending one
\* bit at a time from the root with GetChild (nullptr if the descent falls
\* off the tree); and every node the forward iterator stands on is the node
\* FindHash returns for its stamp.
C20_LookupIsDescent ==
  \A m \in HeldMaps :
    /\ \A h \in ProbeHashes :
         \A tr \in {DescendTrace(trees, m.tree_, h, 0)} :
           FindHash(trees, m, h) = tr[Len(tr)]
    /\ \A run \in {IterRun(trees, zmaps, m)} :
         \A n \in 1..Len(run) :
           FindHash(trees, m, trees[run[n].current_].key_hash) = run[n].current_

\* C20 witness: a map in which FindHash returns a node other than the root
\* at the end of a descent through all 32 levels, and nullptr for a stamp
\* whose descent falls off the tree below the root.
C20_Witness ==
  \E m \in HeldMaps :
    /\ m.tree_ # nullptr
    /\ \E h \in ProbeHashes :
         /\ FindHash(trees, m, h) \notin {nullptr, m.tree_}
         /\ Len(DescendTrace(trees, m.tree_, h, 0)) = kHashBits + 1
    /\ \E h \in ProbeHashes :
         /\ FindHash(trees, m, h) = nullptr
         /\ Len(DescendTrace(trees, m.tree_, h, 0)) > 2

\* C21 (insertion-order independence): for every map m a handle holds, keys
\* k1 # k2 and values v1, v2, the maps m.Add(k1, v1).Add(k2, v2) and
\* m.Add(k2, v2).Add(k1, v1), built in one zone, are equal under operator==.
C21_InsertionOrderIndependent ==
  \A m \in HeldMaps, k1 \in Keys, k2 \in Keys, v1 \in Values, v2 \in Values :
    k1 # k2 =>
      \A p \in {Add(trees, zmaps, m, k1, v1)} :
      \A r12 \in {Add(p.trees, p.zmaps, p.map, k2, v2)} :
      \A q \in {Add(r12.trees, r12.zmaps, m, k2, v2)} :
      \A r21 \in {Add(q.trees, q.zmaps, q.map, k1, v1)} :
        MapEq(r21.trees, r21.zmaps, r12.map, r21.map)

\* C21 witness: a handle holds a map with a collision bucket, and for the
\* colliding keys 1 and 2 the two insertion orders give maps of different
\* roots, focused on different keys, that operator== finds equal.
C21_Witness ==
  \E m \in HeldMaps :
    /\ m.tree_ # nullptr
    /\ trees[m.tree_].more # nullptr
    /\ \A p \in {Add(trees, zmaps, m, 1, 1)} :
       \A r12 \in {Add(p.trees, p.zmaps, p.map, 2, 2)} :
       \A q \in {Add(r12.trees, r12.zmaps, m, 2, 2)} :
       \A r21 \in {Add(q.trees, q.zmaps, q.map, 1, 1)} :
         /\ r12.map.tree_ # r21.map.tree_
         /\ r21.trees[r12.map.tree_].key_value[1] = 2
         /\ r21.trees[r21.map.tree_].key_value[1] = 1
         /\ MapEq(r21.trees, r21.zmaps, r12.map, r21.map)

\* C22 (overwrite-and-restore round trip): for every map m a handle holds,
\* every key k and every value v, m.Add(k, v).Add(k, m.Get(k)) is equal to m
\* under operator==, in both directions of the comparison.
C22_RestoreRoundTrip ==
  \A m \in HeldMaps, k \in Keys, v \in Values :
    \A old \in {Get(trees, zmaps, m, k)} :
    \A p \in {Add(trees, zmaps, m, k, v)} :
    \A r \in {Add(p.trees, p.zmaps, p.map, k, old)} :
      /\ MapEq(r.trees, r.zmaps, r.map, m)
      /\ MapEq(r.trees, r.zmaps, m, r.map)

\* C22 witness: a handle holds a map that is not empty and has no entry for
\* some key; binding the key and restoring the default value gives a map of
\* another root, with an entry of the default value for the key, that
\* operator== finds equal to the first map.
C22_Witness ==
  \E m \in HeldMaps, k \in Keys :
    /\ m.tree_ # nullptr
    /\ FindHash(trees, m, KeyHash(k)) = nullptr
    /\ \A p \in {Add(trees, zmaps, m, k, 2)} :
       \A r \in {Add(p.trees, p.zmaps, p.map, k, m.def_value_)} :
         /\ r.map.tree_ # m.tree_
         /\ r.trees[r.map.tree_].key_value = <<k, m.def_value_>>
         /\ MapEq(r.trees, r.zmaps, r.map, m)

\* C23 (equality is symmetric): for the maps A and B the two handles hold,
\* A == B and B == A give the same result, and A != B gives the negation of
\* A == B.
C23_EqualitySymmetric ==
  \A eab \in {MapEq(trees, zmaps, maps["a"], maps["b"])} :
  \A eba \in {MapEq(trees, zmaps, maps["b"], maps["a"])} :
    /\ eab = eba
    /\ MapNeq(trees, zmaps, maps["a"], maps["b"]) = ~eab
    /\ MapNeq(trees, zmaps, maps["b"], maps["a"]) = ~eba

\* C23 witness: the handles hold maps of different roots and one default
\* value, one of them with a collision bucket, on which the walk in lock
\* step meets a key of one side only; the maps are unequal in both
\* directions.
C23_Witness ==
  /\ maps["a"].tree_ # maps["b"].tree_
  /\ maps["a"].tree_ # nullptr
  /\ maps["b"].tree_ # nullptr
  /\ trees[maps["a"].tree_].more # nullptr
  /\ maps["a"].def_value_ = maps["b"].def_value_
  /\ ~MapEq(trees, zmaps, maps["a"], maps["b"])
  /\ ~MapEq(trees, zmaps, maps["b"], maps["a"])
  /\ MapNeq(trees, zmaps, maps["a"], maps["b"])

\* C24 (end is absorbing): begin() of an empty map equals end(); operator++
\* on a forward iterator at end leaves it at end; operator++ on a double
\* iterator with both sides at end leaves both at end; an end iterator is
\* equal to the end iterators only and is less than no iterator.
C24_EndAbsorbing ==
  \A its \in {UNION {IterReached(trees, zmaps, m) : m \in HeldMaps}} :
    /\ \A m \in HeldMaps :
         m.tree_ = nullptr =>
           IterEq(trees, zmaps, MapBegin(trees, m), MapEnd(m))
    /\ \A e \in its :
         IterIsEnd(e) =>
           /\ IterIsEnd(IterInc(trees, zmaps, e))
           /\ IterIsEnd(IterInc(trees, zmaps, IterInc(trees, zmaps, e)))
           /\ \A j \in its :
                /\ IterEq(trees, zmaps, e, j) = IterIsEnd(j)
                /\ IterEq(trees, zmaps, j, e) = IterIsEnd(j)
                /\ ~IterLess(trees, zmaps, e, j)
    /\ \A e1 \in its, e2 \in its :
         IterIsEnd(e1) /\ IterIsEnd(e2) =>
           \A d \in {DoubleInc(trees, zmaps,
                               DoubleIter(trees, zmaps, e1, e2))} :
             IterIsEnd(d.first_) /\ IterIsEnd(d.second_)

\* C24 witness: one handle holds an empty map, whose begin() equals end();
\* the other holds a map with a collision bucket whose walk takes at least
\* two steps; the operator++ after its last entry gives an end iterator, a
\* further operator++ leaves it at end, it is not equal to begin() of that
\* map, and the double iterator of the two ends stays on the two ends.
C24_Witness ==
  \E m \in HeldMaps, n \in HeldMaps :
    /\ n.tree_ = nullptr
    /\ IterEq(trees, zmaps, MapBegin(trees, n), MapEnd(n))
    /\ m.tree_ # nullptr
    /\ trees[m.tree_].more # nullptr
    /\ \A run \in {IterRun(trees, zmaps, m)} :
         /\ Len(run) >= 2
         /\ \A e \in {IterInc(trees, zmaps, run[Len(run)])} :
              /\ IterIsEnd(e)
              /\ IterIsEnd(IterInc(trees, zmaps, e))
              /\ ~IterEq(trees, zmaps, e, run[1])
              /\ ~IterLess(trees, zmaps, e, run[1])
              /\ \A d \in {DoubleInc(trees, zmaps,
                                     DoubleIter(trees, zmaps, e, MapEnd(n)))} :
                   IterIsEnd(d.first_) /\ IterIsEnd(d.second_)

\* C25 (order of the hash stamps): for the stamp h1 of a node and any other
\* stamp h2 of a node or of a lookup, h1 < h2 holds exactly when h1 has bit
\* kLeft and h2 has bit kRight at the first position where they differ, and
\* h2 < h1 exactly when it is the other way round; that position is the
\* first one at which (h1 ^ h2)[pos] is kRight, and it is where the loop of
\* Add over (h1 ^ h2)[level] stops.
C25_StampOrder ==
  \A h1 \in ZoneStamps, h2 \in ZoneStamps \cup ProbeHashes :
    h1 # h2 =>
      \A p \in {FirstDifference(h1, h2, 0)} :
      \A x \in {HashXor(h1, h2)} :
        /\ p < kHashBits
        /\ HashLess(h1, h2) = (HashBit(h1, p) = kLeft /\ HashBit(h2, p) = kRight)
        /\ HashLess(h2, h1) = (HashBit(h2, p) = kLeft /\ HashBit(h1, p) = kRight)
        /\ HashBit(x, p) = kRight
        /\ \A q \in 0..(p - 1) : HashBit(x, q) = kLeft
        /\ SkipEqualBits(h1, h2, 0) = p

\* C25 witness: the zone holds nodes of two stamps that differ first in the
\* lower half of the word, and nodes of two stamps that differ at the first
\* position; in both pairs the stamp with kLeft there is the smaller one.
C25_Witness ==
  /\ \E h1 \in ZoneStamps, h2 \in ZoneStamps :
       /\ FirstDifference(h1, h2, 0) \in 16..(kHashBits - 1)
       /\ HashBit(h1, FirstDifference(h1, h2, 0)) = kLeft
       /\ HashLess(h1, h2)
       /\ ~HashLess(h2, h1)
  /\ \E h1 \in ZoneStamps, h2 \in ZoneStamps :
       /\ FirstDifference(h1, h2, 0) = 0
       /\ HashBit(h1, 0) = kLeft
       /\ HashLess(h1, h2)
       /\ ~HashLess(h2, h1)

====
